---- MODULE Spec2Model ----
(***************************************************************************)
(* Model of shaksternano/LASR-Base:                                        *)
(*   - lasr_skills.Detect3DInArea: a two-state smach machine, the external *)
(*     detector DETECT_OBJECTS_3D followed by FILTER_DETECTIONS, which     *)
(*     keeps the detections whose (x, y) lies inside a polygon;            *)
(*   - receptionist.Receptionist: an eight-state smach machine.            *)
(* Coordinates are integers; containment is computed exactly.             *)
(***************************************************************************)
EXTENDS Integers, Sequences, FiniteSets, TLC

VARIABLES
    area_polygon,   \* FilterDetections.area_polygon: sequence of <<x, y>>
    detections_3d,  \* userdata.detections_3d: sequence of <<label, pose>>
    d_current,      \* Detect3DInArea: label of the state to execute next
    d_outcome,      \* Detect3DInArea: container outcome, "none" while running
    d_log,          \* history: <<label, outcome>> of every step executed
    detected,       \* history: the list DETECT_OBJECTS_3D wrote
    r_current,      \* Receptionist: label of the current state
    r_pc,           \* Receptionist: "execute" | "transition" | "done"
    r_last,         \* Receptionist: outcome the current state returned
    r_outcome,      \* Receptionist: container outcome, "none" while running
    r_exec,         \* history: executions per label (saturates at MaxCount)
    r_fail,         \* history: "failed" returns per label (saturates)
    r_enter,        \* history: entries per label (saturates)
    r_order,        \* history: labels in order of first execution
    r_succ          \* history: labels in order of first "succeeded" return

dvars == <<area_polygon, detections_3d, d_current, d_outcome, d_log, detected>>
rvars == <<r_current, r_pc, r_last, r_outcome, r_exec, r_fail, r_enter, r_order,
           r_succ>>
vars == <<area_polygon, detections_3d, d_current, d_outcome, d_log, detected,
          r_current, r_pc, r_last, r_outcome, r_exec, r_fail, r_enter, r_order,
          r_succ>>

(***************************************************************************)
(* Bounds                                                                  *)
(***************************************************************************)
\* longest list the detector returns
MaxLen == 3
\* executions of the filter state on its own
MaxRuns == 2
\* value at which the history counters saturate
MaxCount == 5

Labels == {"cup", "chair"}
Poses == {<<5, 5, 0>>, <<5, 5, 1>>, <<15, 15, 0>>, <<10, 5, 1>>,
          <<12, 3, 0>>, <<10, 10, 0>>}
Detections == Labels \X Poses

Square   == <<(<<0, 0>>), (<<10, 0>>), (<<10, 10>>), (<<0, 10>>)>>
Triangle == <<(<<0, 0>>), (<<10, 0>>), (<<0, 10>>)>>
Kite     == <<(<<0, 0>>), (<<15, 0>>), (<<10, 10>>), (<<0, 15>>)>>
Notched  == <<(<<0, 0>>), (<<15, 0>>), (<<15, 15>>), (<<10, 5>>), (<<0, 15>>)>>
Polygons == {Square, Triangle, Kite, Notched}

RECURSIVE SeqsUpTo(_, _)
SeqsUpTo(S, n) ==
    IF n = 0 THEN {<< >>}
    ELSE LET shorter == SeqsUpTo(S, n - 1)
         IN  shorter \cup {Append(s, e) : s \in {t \in shorter : Len(t) = n - 1}, e \in S}

DetectionLists == SeqsUpTo(Detections, MaxLen)

(***************************************************************************)
(* smach: how a container resolves the outcome of a state.  `add` binds    *)
(* every outcome without an explicit transition to None; on return a       *)
(* target that is a state becomes the current state, a target that is not  *)
(* a container outcome falls through to the state's own outcome, and the   *)
(* result must then be a container outcome.                                *)
(***************************************************************************)
ContainerOutcomes == {"succeeded", "failed"}

\* a container that raises on every outcome without an explicit transition
ResolveStrict(T, label, outcome) ==
    IF outcome \in DOMAIN T[label] THEN T[label][outcome]
    ELSE "InvalidTransitionError"

Resolve(T, label, outcome) ==
    LET target == IF outcome \in DOMAIN T[label] THEN T[label][outcome] ELSE "None"
        through == IF target \in ContainerOutcomes THEN target ELSE outcome
    IN  IF target \in DOMAIN T THEN target
        ELSE IF through \in ContainerOutcomes THEN through
        ELSE "InvalidTransitionError"

(***************************************************************************)
(* shapely: Polygon.contains(Point) holds for points of the interior only. *)
(***************************************************************************)
Vertex(poly, i) == poly[((i - 1) % Len(poly)) + 1]

Min(a, b) == IF a <= b THEN a ELSE b
Max(a, b) == IF a >= b THEN a ELSE b

\* p lies on the closed segment from a to b
OnSegment(p, a, b) ==
    /\ (b[1] - a[1]) * (p[2] - a[2]) = (b[2] - a[2]) * (p[1] - a[1])
    /\ Min(a[1], b[1]) <= p[1] /\ p[1] <= Max(a[1], b[1])
    /\ Min(a[2], b[2]) <= p[2] /\ p[2] <= Max(a[2], b[2])

\* the horizontal ray from p towards +x crosses the segment from a to b
RayCrosses(p, a, b) ==
    /\ (a[2] > p[2]) # (b[2] > p[2])
    /\ IF b[2] > a[2]
       THEN (p[1] - a[1]) * (b[2] - a[2]) < (p[2] - a[2]) * (b[1] - a[1])
       ELSE (p[1] - a[1]) * (b[2] - a[2]) > (p[2] - a[2]) * (b[1] - a[1])

OnBoundary(poly, p) ==
    \E i \in 1..Len(poly) : OnSegment(p, Vertex(poly, i), Vertex(poly, i + 1))

\* containment that also accepts the boundary (shapely's covers)
ContainsOrTouches(poly, p) ==
    \/ OnBoundary(poly, p)
    \/ Cardinality({i \in 1..Len(poly) :
                      RayCrosses(p, Vertex(poly, i), Vertex(poly, i + 1))}) % 2 = 1

Contains(poly, p) ==
    /\ ~OnBoundary(poly, p)
    /\ Cardinality({i \in 1..Len(poly) :
                      RayCrosses(p, Vertex(poly, i), Vertex(poly, i + 1))}) % 2 = 1

(***************************************************************************)
(* Detect3DInArea.FilterDetections.execute                                 *)
(***************************************************************************)
\* flags computed from pose[0] and pose[2]
SatisfiedPointsXZ(poly, dets) ==
    [i \in 1..Len(dets) |-> Contains(poly, <<dets[i][2][1], dets[i][2][3]>>)]

\* satisfied_points: one containment flag per detection, by index
SatisfiedPoints(poly, dets) ==
    [i \in 1..Len(dets) |-> Contains(poly, <<dets[i][2][1], dets[i][2][2]>>)]

RECURSIVE Keep(_, _, _)
\* the elements of dets[i..] whose flag is set, in index order
Keep(dets, flags, i) ==
    IF i > Len(dets) THEN << >>
    ELSE IF flags[i] THEN <<dets[i]>> \o Keep(dets, flags, i + 1)
    ELSE Keep(dets, flags, i + 1)

RECURSIVE KeepFront(_, _, _)
\* the kept elements, each put in front of the ones kept before it
KeepFront(dets, flags, i) ==
    IF i > Len(dets) THEN << >>
    ELSE IF flags[i] THEN KeepFront(dets, flags, i + 1) \o <<dets[i]>>
    ELSE KeepFront(dets, flags, i + 1)

FilteredDetectionsFront(poly, dets) == KeepFront(dets, SatisfiedPoints(poly, dets), 1)

\* a filter that keeps one detection per ground-plane position
FilteredDetectionsOnePerPlace(poly, dets) ==
    LET inside == SatisfiedPoints(poly, dets)
        flags == [i \in 1..Len(dets) |->
                    /\ inside[i]
                    /\ \A j \in 1..(i - 1) :
                          <<dets[j][2][1], dets[j][2][2]>> # <<dets[i][2][1], dets[i][2][2]>>]
    IN  Keep(dets, flags, 1)

\* a comprehension that starts at index 1 instead of 0
FilteredDetectionsSkipFirst(poly, dets) == Keep(dets, SatisfiedPoints(poly, dets), 2)

\* the kept elements rebuilt from their ground-plane position
FilteredDetectionsFlattened(poly, dets) ==
    LET kept == Keep(dets, SatisfiedPoints(poly, dets), 1)
    IN  [i \in 1..Len(kept) |-> <<kept[i][1], <<kept[i][2][1], kept[i][2][2], 0>>>>]

FilteredDetections(poly, dets) == Keep(dets, SatisfiedPoints(poly, dets), 1)

\* a filter that reports failure when nothing is left
FilterOutcomeFailsOnEmpty(filtered) ==
    IF filtered = << >> THEN "failed" ELSE "succeeded"

\* the value execute returns, whatever it filtered
FilterOutcome(filtered) == "succeeded"

(***************************************************************************)
(* Detect3DInArea: the machine                                             *)
(***************************************************************************)
DWiring ==
    [DETECT_OBJECTS_3D |-> [succeeded |-> "FILTER_DETECTIONS", failed |-> "failed"],
     FILTER_DETECTIONS |-> [succeeded |-> "succeeded", failed |-> "failed"]]

\* a detector failure wired to the filter
DTransitionsFailedToFilter ==
    [DWiring EXCEPT !.DETECT_OBJECTS_3D.failed = "FILTER_DETECTIONS"]

DTransitions == DWiring

\* the filter added first
DInitialStateFilter == "FILTER_DETECTIONS"

\* the first state added is the initial state
DInitialState == "DETECT_OBJECTS_3D"

\* outcomes of the external Detect3D state
Detect3DOutcomes == {"succeeded", "failed"}

DStep(label, outcome) ==
    LET next == Resolve(DTransitions, label, outcome)
    IN  /\ d_log' = Append(d_log, <<label, outcome>>)
        /\ IF next \in DOMAIN DTransitions
           THEN d_current' = next /\ d_outcome' = "none"
           ELSE d_current' = "None" /\ d_outcome' = next

DetectObjects3D ==
    /\ d_current = "DETECT_OBJECTS_3D"
    /\ \E outcome \in Detect3DOutcomes :
         /\ IF outcome = "succeeded"
            THEN \E dets \in DetectionLists :
                    detections_3d' = dets /\ detected' = dets
            ELSE UNCHANGED <<detections_3d, detected>>
         /\ DStep("DETECT_OBJECTS_3D", outcome)
    /\ UNCHANGED <<area_polygon>>
    /\ UNCHANGED rvars

FilterDetections ==
    /\ d_current = "FILTER_DETECTIONS"
    /\ detections_3d' = FilteredDetections(area_polygon, detections_3d)
    /\ DStep("FILTER_DETECTIONS",
             FilterOutcome(FilteredDetections(area_polygon, detections_3d)))
    /\ UNCHANGED <<area_polygon, detected>>
    /\ UNCHANGED rvars

DNext == DetectObjects3D \/ FilterDetections

\* FilterDetections.execute called on the state by itself, outside the
\* machine, on whatever userdata.detections_3d holds
Execute ==
    /\ d_current = "None"
    /\ Len(d_log) < MaxRuns
    /\ detections_3d' = FilteredDetections(area_polygon, detections_3d)
    /\ d_log' = Append(d_log,
                       <<"FILTER_DETECTIONS",
                         FilterOutcome(FilteredDetections(area_polygon, detections_3d))>>)
    /\ UNCHANGED <<area_polygon, detected, d_current, d_outcome>>
    /\ UNCHANGED rvars

FNext == Execute

(***************************************************************************)
(* Receptionist: the machine                                               *)
(***************************************************************************)
RWiring ==
    [START                 |-> [succeeded |-> "GO_TO_WAIT_FOR_PERSON"],
     GO_TO_WAIT_FOR_PERSON |-> [succeeded |-> "WAIT_FOR_PERSON"],
     WAIT_FOR_PERSON       |-> [succeeded |-> "GO_TO_PERSON", failed |-> "failed"],
     GO_TO_PERSON          |-> [succeeded |-> "ASK_FOR_DRINK"],
     ASK_FOR_DRINK         |-> [failed |-> "ASK_FOR_DRINK", succeeded |-> "GO_TO_SEATING_AREA"],
     GO_TO_SEATING_AREA    |-> [succeeded |-> "LOOK_FOR_SEATS"],
     LOOK_FOR_SEATS        |-> [succeeded |-> "END"],
     END                   |-> [succeeded |-> "succeeded"]]

\* GO_TO_PERSON wired past ASK_FOR_DRINK
RTransitionsSkipAsk ==
    [RWiring EXCEPT !.GO_TO_PERSON.succeeded = "GO_TO_SEATING_AREA"]

\* WAIT_FOR_PERSON retried on failure
RTransitionsWaitRetries ==
    [RWiring EXCEPT !.WAIT_FOR_PERSON.failed = "WAIT_FOR_PERSON"]

\* a failed ASK_FOR_DRINK restarts from GO_TO_PERSON
RTransitionsAskBack ==
    [RWiring EXCEPT !.ASK_FOR_DRINK.failed = "GO_TO_PERSON"]

\* a failed ASK_FOR_DRINK ends the flow
RTransitionsAskGivesUp ==
    [RWiring EXCEPT !.ASK_FOR_DRINK.failed = "failed"]

\* END wired to itself
RTransitionsEndLoops ==
    [RWiring EXCEPT !.END.succeeded = "END"]

\* LOOK_FOR_SEATS retried on failure
RTransitionsSeatsRetry ==
    [RWiring EXCEPT !.LOOK_FOR_SEATS = [succeeded |-> "END", failed |-> "LOOK_FOR_SEATS"]]

\* LOOK_FOR_SEATS wired to the outcome instead of END
RTransitionsSkipEnd ==
    [RWiring EXCEPT !.LOOK_FOR_SEATS.succeeded = "succeeded"]

\* LOOK_FOR_SEATS wired back to GO_TO_SEATING_AREA
RTransitionsSeatsBack ==
    [RWiring EXCEPT !.LOOK_FOR_SEATS.succeeded = "GO_TO_SEATING_AREA"]

RTransitions == RWiring

RLabels == DOMAIN RWiring

\* the first state added is the initial state
RInitialState == "START"

\* outcomes a step of the flow can return
StepOutcomes == {"succeeded", "failed"}

Bump(f, label) == [f EXCEPT ![label] = Min(@ + 1, MaxCount)]

\* the current state runs and returns an outcome
RExecute ==
    /\ r_pc = "execute"
    /\ \E outcome \in StepOutcomes :
         /\ r_last' = outcome
         /\ r_fail' = IF outcome = "failed" THEN Bump(r_fail, r_current) ELSE r_fail
         /\ r_succ' = IF outcome = "succeeded"
                          /\ \A i \in 1..Len(r_succ) : r_succ[i] # r_current
                       THEN Append(r_succ, r_current)
                       ELSE r_succ
    /\ r_exec' = Bump(r_exec, r_current)
    /\ r_order' = IF r_exec[r_current] = 0 THEN Append(r_order, r_current) ELSE r_order
    /\ r_pc' = "transition"
    /\ UNCHANGED <<r_current, r_outcome, r_enter>>
    /\ UNCHANGED dvars

\* the container follows the transition wired for the returned outcome
RTransition ==
    /\ r_pc = "transition"
    /\ LET next == Resolve(RTransitions, r_current, r_last)
       IN  IF next \in RLabels
           THEN /\ r_current' = next
                /\ r_enter' = Bump(r_enter, next)
                /\ r_pc' = "execute"
                /\ r_outcome' = "none"
           ELSE /\ r_current' = "None"
                /\ r_enter' = r_enter
                /\ r_pc' = "done"
                /\ r_outcome' = next
    /\ UNCHANGED <<r_last, r_exec, r_fail, r_order, r_succ>>
    /\ UNCHANGED dvars

RNext == RExecute \/ RTransition

(***************************************************************************)
(* Specifications                                                          *)
(***************************************************************************)
\* Detect3DInArea constructed over some polygon; no Receptionist
InitDetect ==
    /\ area_polygon \in Polygons
    /\ detections_3d = << >>
    /\ d_current = DInitialState
    /\ d_outcome = "none"
    /\ d_log = << >>
    /\ detected = << >>
    /\ r_current = "None"
    /\ r_pc = "done"
    /\ r_last = "none"
    /\ r_outcome = "none"
    /\ r_exec = [l \in RLabels |-> 0]
    /\ r_fail = [l \in RLabels |-> 0]
    /\ r_enter = [l \in RLabels |-> 0]
    /\ r_order = << >>
    /\ r_succ = << >>

\* Receptionist constructed; no Detect3DInArea
InitRecep ==
    /\ area_polygon = << >>
    /\ detections_3d = << >>
    /\ d_current = "None"
    /\ d_outcome = "none"
    /\ d_log = << >>
    /\ detected = << >>
    /\ r_current = RInitialState
    /\ r_pc = "execute"
    /\ r_last = "none"
    /\ r_outcome = "none"
    /\ r_exec = [l \in RLabels |-> 0]
    /\ r_fail = [l \in RLabels |-> 0]
    /\ r_enter = [l \in RLabels |-> IF l = RInitialState THEN 1 ELSE 0]
    /\ r_order = << >>
    /\ r_succ = << >>

\* a FilterDetections state over some polygon, handed some list
InitFilter ==
    /\ area_polygon \in Polygons
    /\ detections_3d \in DetectionLists
    /\ detected = detections_3d
    /\ d_current = "None"
    /\ d_outcome = "none"
    /\ d_log = << >>
    /\ r_current = "None"
    /\ r_pc = "done"
    /\ r_last = "none"
    /\ r_outcome = "none"
    /\ r_exec = [l \in RLabels |-> 0]
    /\ r_fail = [l \in RLabels |-> 0]
    /\ r_enter = [l \in RLabels |-> 0]
    /\ r_order = << >>
    /\ r_succ = << >>

\* FilterDetections.execute applied repeatedly to its own output
SpecFilter == InitFilter /\ [][FNext]_vars

\* one run of Detect3DInArea
SpecDetect == InitDetect /\ [][DNext]_vars

\* one run of Receptionist
SpecRecep == InitRecep /\ [][RNext]_vars

\* the executor keeps stepping the flow while a state is current
FairSpecRecep == InitRecep /\ [][RNext]_vars /\ WF_vars(RNext)

(***************************************************************************)
(* Properties of Detect3DInArea                                            *)
(***************************************************************************)
XY(det) == <<det[2][1], det[2][2]>>

\* FILTER_DETECTIONS has been executed
Filtered == \E i \in 1..Len(d_log) : d_log[i][1] = "FILTER_DETECTIONS"

RECURSIVE IsSubsequence(_, _)
\* s is obtained from t by deleting elements
IsSubsequence(s, t) ==
    IF s = << >> THEN TRUE
    ELSE IF t = << >> THEN FALSE
    ELSE IF Head(s) = Head(t) THEN IsSubsequence(Tail(s), Tail(t))
    ELSE IsSubsequence(s, Tail(t))

\* p is strictly to the left of the directed line from a to b
LeftOf(a, b, p) ==
    (b[1] - a[1]) * (p[2] - a[2]) - (b[2] - a[2]) * (p[1] - a[1]) > 0

\* p is in the interior of the convex polygon part (counter-clockwise)
InConvex(part, p) ==
    \A i \in 1..Len(part) : LeftOf(Vertex(part, i), Vertex(part, i + 1), p)

\* The interior of each polygon of Polygons, by half-planes.  Square,
\* Triangle and Kite are convex; Notched is the union of two triangles
\* that share the segment from (15, 0) to (10, 5).
Interior(poly, p) ==
    IF poly = Notched
    THEN \/ InConvex(<<(<<0, 0>>), (<<15, 0>>), (<<0, 15>>)>>, p)
         \/ InConvex(<<(<<15, 0>>), (<<15, 15>>), (<<10, 5>>)>>, p)
         \/ (p[1] + p[2] = 15 /\ 10 < p[1] /\ p[1] < 15)
    ELSE InConvex(poly, p)

InsideArea(det) == Interior(area_polygon, XY(det))

\* C1: the list FilterDetections.execute writes is a subsequence of its
\* input by index order: only input elements, in their input order, none
\* more often than in the input.
C1_Subsequence ==
    Filtered => IsSubsequence(detections_3d, detected)

\* C1: the filter kept two different detections and removed another
C1_Witness ==
    /\ Filtered
    /\ Len(detected) = 3
    /\ Len(detections_3d) = 2
    /\ detections_3d[1] # detections_3d[2]

\* C2: the filter keeps exactly the elements whose (x, y) is strictly
\* inside the polygon, index by index; for the square (0,0) (10,0) (10,10)
\* (0,10) a detection at (5,5) is kept and one at (15,15) is removed.
C2_KeepsExactlyInside ==
    Filtered =>
        /\ detections_3d = SelectSeq(detected, InsideArea)
        /\ (area_polygon = Square /\ Len(detected) = 2
              /\ XY(detected[1]) = <<5, 5>> /\ XY(detected[2]) = <<15, 15>>)
           => detections_3d = <<detected[1]>>

\* C2: the example of the square, filtered
C2_Witness ==
    /\ Filtered
    /\ area_polygon = Square
    /\ Len(detected) = 2
    /\ XY(detected[1]) = <<5, 5>>
    /\ XY(detected[2]) = <<15, 15>>
    /\ detections_3d = <<detected[1]>>

\* C3: no detection whose (x, y) lies on an edge or at a vertex of the
\* polygon is in the filtered list.
C3_BoundaryRemoved ==
    Filtered =>
        \A i \in 1..Len(detections_3d) :
            ~OnBoundary(area_polygon, XY(detections_3d[i]))

\* C3: a list with a detection on an edge, one at a vertex and one inside
\* was filtered
C3_Witness ==
    /\ Filtered
    /\ area_polygon = Square
    /\ Len(detected) = 3
    /\ XY(detected[1]) = <<10, 5>>
    /\ XY(detected[2]) = <<5, 5>>
    /\ XY(detected[3]) = <<10, 10>>
    /\ detections_3d = <<detected[2]>>

\* C3: a detection on a slanted edge was removed
C3_WitnessSlanted ==
    /\ Filtered
    /\ area_polygon = Triangle
    /\ \E i \in 1..Len(detected) : XY(detected[i]) = <<5, 5>>
    /\ detections_3d = << >>

\* the outcome FILTER_DETECTIONS returned
FilterReturned == d_log[Len(d_log)][2]

\* C4: filtering an empty list, or a list with no detection inside the
\* polygon, leaves detections_3d empty and returns "succeeded".
C4_EmptyResultSucceeds ==
    (Filtered /\ \A i \in 1..Len(detected) : ~InsideArea(detected[i])) =>
        /\ detections_3d = << >>
        /\ FilterReturned = "succeeded"
        /\ d_outcome = "succeeded"

\* C4: a non-empty list with nothing inside the polygon was filtered
C4_Witness ==
    /\ Filtered
    /\ Len(detected) >= 2
    /\ \A i \in 1..Len(detected) : ~InsideArea(detected[i])
    /\ detections_3d = << >>
    /\ d_outcome = "succeeded"

\* C4: the empty list was filtered
C4_WitnessEmpty ==
    Filtered /\ detected = << >> /\ d_outcome = "succeeded"

DetectorFailed ==
    \E i \in 1..Len(d_log) : d_log[i] = <<"DETECT_OBJECTS_3D", "failed">>

\* C5: the machine ends "failed" exactly when DETECT_OBJECTS_3D returned
\* "failed"; FILTER_DETECTIONS never returns "failed"; and when the machine
\* ends "succeeded", detections_3d is the detector's list filtered.
C5_FailedIffDetectorFailed ==
    /\ d_outcome = "failed" <=> DetectorFailed
    /\ \A i \in 1..Len(d_log) : d_log[i] # <<"FILTER_DETECTIONS", "failed">>
    /\ d_outcome = "succeeded" =>
          /\ Filtered
          /\ detections_3d = SelectSeq(detected, InsideArea)

\* C5: the detector failed and the machine ended
C5_Witness ==
    DetectorFailed /\ d_current = "None" /\ d_outcome = "failed"

(***************************************************************************)
(* Properties of Receptionist                                              *)
(***************************************************************************)
Chain == <<"START", "GO_TO_WAIT_FOR_PERSON", "WAIT_FOR_PERSON", "GO_TO_PERSON",
           "ASK_FOR_DRINK", "GO_TO_SEATING_AREA", "LOOK_FOR_SEATS", "END">>

NoFailure == \A l \in RLabels : r_fail[l] = 0

\* C6: while every step returns "succeeded" the flow executes START,
\* GO_TO_WAIT_FOR_PERSON, WAIT_FOR_PERSON, GO_TO_PERSON, ASK_FOR_DRINK,
\* GO_TO_SEATING_AREA, LOOK_FOR_SEATS, END in this order, each once, and
\* then ends with outcome "succeeded".
C6_HappyPath ==
    NoFailure =>
        /\ Len(r_order) <= Len(Chain)
        /\ r_order = SubSeq(Chain, 1, Len(r_order))
        /\ \A i \in 1..Len(Chain) :
              r_exec[Chain[i]] = IF i <= Len(r_order) THEN 1 ELSE 0
        /\ r_pc = "execute" => r_current = Chain[Len(r_order) + 1]
        /\ r_pc = "transition" => r_current = Chain[Len(r_order)]
        /\ r_pc = "done" => (r_order = Chain /\ r_outcome = "succeeded")

\* C6: a run without any failure has ended
C6_Witness ==
    NoFailure /\ r_pc = "done" /\ r_outcome = "succeeded" /\ r_order = Chain

AfterWaitForPerson ==
    {"GO_TO_PERSON", "ASK_FOR_DRINK", "GO_TO_SEATING_AREA", "LOOK_FOR_SEATS", "END"}

\* C7: once WAIT_FOR_PERSON has returned "failed" the flow ends "failed"
\* at once: WAIT_FOR_PERSON is executed once only and no later step is
\* entered or executed.
C7_WaitFailureEndsFlow ==
    r_fail["WAIT_FOR_PERSON"] >= 1 =>
        /\ r_exec["WAIT_FOR_PERSON"] = 1
        /\ r_enter["WAIT_FOR_PERSON"] = 1
        /\ \A l \in AfterWaitForPerson : r_exec[l] = 0 /\ r_enter[l] = 0
        /\ \/ r_pc = "transition" /\ r_current = "WAIT_FOR_PERSON" /\ r_last = "failed"
           \/ r_pc = "done" /\ r_current = "None" /\ r_outcome = "failed"

\* C7: the flow has ended after WAIT_FOR_PERSON failed
C7_Witness ==
    r_fail["WAIT_FOR_PERSON"] = 1 /\ r_pc = "done" /\ r_outcome = "failed"

\* ASK_FOR_DRINK has returned "succeeded"
AskSucceeded ==
    \/ r_current = "ASK_FOR_DRINK" /\ r_pc = "transition" /\ r_last = "succeeded"
    \/ r_enter["GO_TO_SEATING_AREA"] >= 1

\* C8: when ASK_FOR_DRINK has failed N times and then succeeded, it has
\* been executed N+1 times, GO_TO_PERSON once, and GO_TO_SEATING_AREA is
\* entered once (counters read "MaxCount or more" at MaxCount).
C8_RetryCount ==
    AskSucceeded =>
        /\ r_exec["ASK_FOR_DRINK"] = Min(r_fail["ASK_FOR_DRINK"] + 1, MaxCount)
        /\ r_exec["GO_TO_PERSON"] = 1
        /\ r_enter["GO_TO_PERSON"] = 1
        /\ r_enter["GO_TO_SEATING_AREA"] =
              IF r_current = "ASK_FOR_DRINK" THEN 0 ELSE 1

\* C8: GO_TO_SEATING_AREA was entered after two failures of ASK_FOR_DRINK
C8_Witness ==
    /\ r_fail["ASK_FOR_DRINK"] = 2
    /\ r_exec["ASK_FOR_DRINK"] = 3
    /\ r_enter["GO_TO_SEATING_AREA"] = 1

AskFailed ==
    r_current = "ASK_FOR_DRINK" /\ r_pc = "transition" /\ r_last = "failed"

\* C9: after any number of failures, a "failed" outcome of ASK_FOR_DRINK
\* makes ASK_FOR_DRINK the next state; it never ends the flow and never
\* moves it to another step.
C9_AskFailureRetries ==
    [][AskFailed =>
          /\ r_current' = "ASK_FOR_DRINK"
          /\ r_pc' = "execute"
          /\ r_outcome' = "none"
          /\ r_enter'["GO_TO_SEATING_AREA"] = 0]_vars

\* C9: ASK_FOR_DRINK is about to run again after MaxCount or more failures
C9_Witness ==
    /\ r_fail["ASK_FOR_DRINK"] = MaxCount
    /\ r_current = "ASK_FOR_DRINK"
    /\ r_pc = "execute"
    /\ r_outcome = "none"

Terminated == r_pc = "done" /\ r_outcome \in {"succeeded", "failed"}

NoRetrySteps == RLabels \ {"ASK_FOR_DRINK"}

UnwiredSteps ==
    {"START", "GO_TO_WAIT_FOR_PERSON", "GO_TO_PERSON", "GO_TO_SEATING_AREA",
     "LOOK_FOR_SEATS", "END"}

UnwiredFailed ==
    r_pc = "transition" /\ r_current \in UnwiredSteps /\ r_last = "failed"

C13_FilterFrame ==
    [][d_current = "FILTER_DETECTIONS" =>
          /\ area_polygon' = area_polygon
          /\ detected' = detected
          /\ rvars' = rvars
          /\ \A i \in 1..Len(detections_3d') :
                \E j \in 1..Len(detections_3d) :
                    detections_3d'[i] = detections_3d[j]]_vars

\* C13: a detection with a non-zero third coordinate was kept and another
\* detection removed
C13_Witness ==
    /\ Filtered
    /\ Len(detections_3d) < Len(detected)
    /\ \E i \in 1..Len(detections_3d) :
          detections_3d[i] = <<"chair", <<5, 5, 1>>>>

\* number of executions of FILTER_DETECTIONS
FilterRuns ==
    Cardinality({i \in 1..Len(d_log) : d_log[i][1] = "FILTER_DETECTIONS"})

\* C14: DETECT_OBJECTS_3D is the first step executed; FILTER_DETECTIONS is
\* executed at most once and only right after DETECT_OBJECTS_3D returned
\* "succeeded"; when DETECT_OBJECTS_3D returns "failed" the machine ends
\* without FILTER_DETECTIONS and the detection list is left as it was.
C14_DetectThenFilter ==
    /\ Len(d_log) >= 1 => d_log[1][1] = "DETECT_OBJECTS_3D"
    /\ FilterRuns <= 1
    /\ \A i \in 1..Len(d_log) :
          d_log[i][1] = "FILTER_DETECTIONS" =>
              i = 2 /\ d_log[1] = <<"DETECT_OBJECTS_3D", "succeeded">>
    /\ DetectorFailed =>
          /\ d_current = "None"
          /\ d_outcome = "failed"
          /\ FilterRuns = 0
          /\ detections_3d = << >>

\* C14: the filter has run after a detector success
C14_Witness ==
    /\ d_log = <<(<<"DETECT_OBJECTS_3D", "succeeded">>),
                 (<<"FILTER_DETECTIONS", "succeeded">>)>>
    /\ d_current = "None"
    /\ Len(detected) >= 1

\* C15: the flow has the outcome "succeeded" only after END returned
\* "succeeded", and by then each of the eight steps has returned
\* "succeeded", the first successes coming in chain order.
C15_SucceededOnlyThroughEnd ==
    /\ r_outcome = "succeeded" =>
          /\ r_succ = Chain
          /\ r_last = "succeeded"
          /\ r_exec["END"] = 1 /\ r_fail["END"] = 0
    /\ \A i \in 1..Len(r_succ) : r_succ[i] = Chain[i]

\* C15: a run has ended "succeeded" although ASK_FOR_DRINK failed on the way
C15_Witness ==
    /\ r_outcome = "succeeded"
    /\ r_pc = "done"
    /\ r_fail["ASK_FOR_DRINK"] = 2
    /\ r_succ = Chain

\* C16: every step other than ASK_FOR_DRINK is entered and executed at
\* most once, and the steps are first executed in chain order: the flow
\* never goes back to an earlier step.
C16_NoStepRepeatsButAsk ==
    /\ \A l \in NoRetrySteps : r_exec[l] <= 1 /\ r_enter[l] <= 1
    /\ \A i \in 1..Len(r_order) : r_order[i] = Chain[i]
    /\ r_pc # "done" =>
          r_current = Chain[Len(r_order) + (IF r_pc = "execute" /\ r_exec[r_current] = 0
                                            THEN 1 ELSE 0)]

\* C16: a run has ended in which ASK_FOR_DRINK ran three times and every
\* other step once
C16_Witness ==
    /\ r_pc = "done"
    /\ r_exec["ASK_FOR_DRINK"] = 3
    /\ \A l \in NoRetrySteps : r_exec[l] = 1

\* C17: once FilterDetections.execute has run, running it again on its own
\* output with the same polygon leaves detections_3d as the first run
\* left it.
C17_Idempotent ==
    [][(Len(d_log) >= 1 /\ Len(d_log') > Len(d_log)) =>
          detections_3d' = detections_3d]_vars

\* C17: the filter has run twice on a list from which the first run removed
\* something and kept two detections
C17_Witness ==
    /\ Len(d_log) = 2
    /\ d_log[1][1] = "FILTER_DETECTIONS"
    /\ d_log[2][1] = "FILTER_DETECTIONS"
    /\ Len(detections_3d) = 2
    /\ Len(detected) = 3

\* number of occurrences of v in seq
Count(v, seq) == Cardinality({i \in 1..Len(seq) : seq[i] = v})

\* what the filter does, with the same polygon, to a list holding nothing
\* but one detection at the (x, y) of det, with another label and the third
\* coordinate 0
KeptAlone(det) ==
    FilteredDetections(area_polygon,
                       <<(<<"reference", <<det[2][1], det[2][2], 0>>>>)>>) # << >>

\* C18: whether a detection is kept depends on its (x, y) and the polygon
\* only: every occurrence of it is kept, or none is, according to what the
\* filter does to a lone detection at the same (x, y), whatever the label,
\* the third coordinate, the index and the rest of the list; so two
\* detections with equal (x, y) get the same decision.
C18_DecisionDependsOnXYOnly ==
    Filtered =>
        /\ \A i \in 1..Len(detected) :
              Count(detected[i], detections_3d) =
                  IF KeptAlone(detected[i]) THEN Count(detected[i], detected) ELSE 0
        /\ \A i, j \in 1..Len(detected) :
              XY(detected[i]) = XY(detected[j]) =>
                  (Count(detected[i], detections_3d) = 0
                     <=> Count(detected[j], detections_3d) = 0)

\* C18: two detections at the same (x, y), with different labels and third
\* coordinates and a removed detection between them, were both kept
C18_Witness ==
    /\ Filtered
    /\ Len(detected) = 3
    /\ detected[1] = <<"cup", <<5, 5, 0>>>>
    /\ XY(detected[2]) = <<15, 15>>
    /\ detected[3] = <<"chair", <<5, 5, 1>>>>
    /\ detections_3d = <<detected[1], detected[3]>>

====
